---- MODULE Spec2Model ----
(***************************************************************************)
(* In-page overlay scripts of yujin-ai: the basic element highlighter,     *)
(* the advanced (DOM-scan) element highlighter, the photo display, the     *)
(* loading indicator and the research panel.                               *)
(* Every handler runs to completion on the page's single-threaded event    *)
(* loop, so each handler is one atomic action.                             *)
(***************************************************************************)
EXTENDS Integers, Sequences, FiniteSets, TLC

\* ------------------------------------------------------------------------
\* Bounds of the model
\* ------------------------------------------------------------------------
MaxNodes == 4       \* elements of the scanned page (node 1 is document.body)
MaxScans == 2       \* calls of findAndHighlightInteractiveElements per run
MaxHighlights == 2  \* entries the basic highlighter tracks at a time
MaxTimers == 2      \* auto-removal timers pending at a time

VARIABLES
    dom,             \* the page scanned by the advanced highlighter
    highlightIndex,  \* part_000:180
    ID,              \* part_000:182  (ID.current)
    DOM_HASH_MAP,    \* part_000:181  id -> record
    DOM_CACHE,       \* part_000:192  elements with a cached rect / style
    container,       \* the element #playwright-highlight-container
    listeners,       \* scroll/resize listeners registered on window
    scanCall         \* the scans made so far and what the last one returned;
                     \* repeat: it rescanned the same parent after the
                     \* overlays of the scan before were removed

advVars == <<dom, highlightIndex, ID, DOM_HASH_MAP, DOM_CACHE, container,
             listeners, scanCall>>

VARIABLES
    loaded,          \* the scripts of part_000 that have run, in order
    highlights,      \* part_000:9   the basic highlighter's tracked entries
    overlays,        \* overlay elements attached to document.body
    timers,          \* pending setTimeout callbacks of the basic highlighter
    keyframes,       \* whether style#highlight-keyframes is in document.head
    layout,          \* where the highlighted elements currently are
    observerError,   \* the mutation observer's callback has thrown
    basicCall,       \* the last call into the basic highlighter and its result
    history          \* successful highlight calls while nothing was removed

basicVars == <<loaded, highlights, overlays, timers, keyframes,
               layout, observerError, basicCall, history>>

\* photo_display.js
VARIABLES
    photos,          \* every container displayPhoto has built, in creation order
    photoCall        \* the last photo display step

photoVars == <<photos, photoCall>>

\* README.md:185-261 (loading indicator) and README.md:47-176 (research panel)
VARIABLES
    loadingContainer,  \* loadingIndicator.loadingContainer (0 for null)
    loadingBody,       \* the loading containers attached to document.body
    headStyles,        \* <style> elements the indicator has put in document.head
    loadingCall,       \* the last call into the loading indicator
    displayContainer,  \* researchDisplay.displayContainer (0 for null)
    researchBody,      \* the research panels attached to document.body
    researchCall       \* the last call into the research panel

panelVars == <<loadingContainer, loadingBody, headStyles, loadingCall,
               displayContainer, researchBody, researchCall>>

\* The text of the page (highlightAllText) and the element handed to
\* isInteractiveElement through the public API.
VARIABLES
    textDom,         \* the text nodes directly under each element of dom
    textCall,        \* the last highlightAllText call and what it returned
    probe            \* the last isInteractiveElement call and what it returned

textVars == <<textDom, textCall>>

otherVars == <<panelVars, textVars, probe>>

vars == <<advVars, basicVars, photoVars, otherVars>>

\* ------------------------------------------------------------------------
\* The scanned page
\* ------------------------------------------------------------------------
Nodes == 1 .. MaxNodes

\* An element as the scan reads it: tag, role and the other attributes,
\* layout (offsetWidth/offsetHeight, computed style), what
\* document.elementFromPoint returns at its centre ("self" stands for the
\* element or one of its descendants), whether a shadow root is attached,
\* and whether drawing its overlay throws.
Absent == "<absent>"     \* getAttribute(...) === null

El(tag, role, attrs, disp, hit, shadow, throws) ==
    [tagName |-> tag, role |-> role, attrs |-> attrs,
     tabindex |-> Absent, contenteditable |-> Absent, draggable |-> FALSE,
     onclick |-> FALSE, classList |-> {},
     offsetWidth |-> IF disp = "none" THEN 0 ELSE 10,
     offsetHeight |-> IF disp = "none" THEN 0 ELSE 10,
     visibility |-> "visible", display |-> disp,
     inViewport |-> TRUE, hit |-> hit,
     shadowRoot |-> shadow, throws |-> throws]

BodyElement   == El("body",   <<>>, {}, "block", "self", FALSE, FALSE)
Button        == El("button", <<>>, {}, "block", "self", FALSE, FALSE)
HiddenButton  == El("button", <<>>, {}, "none",  "self", FALSE, FALSE)
OccludedRole  == El("div", <<"b","u","t","t","o","n">>, {}, "block", "other", FALSE, FALSE)
ScriptEl      == El("script", <<>>, {}, "none",  "self", FALSE, FALSE)
IFrameEl      == El("iframe", <<>>, {}, "block", "self", FALSE, FALSE)
\* A custom element with a click handler and a shadow root; drawing its
\* overlay throws.
FaultyHost    == El("div", <<>>, {"onclick"}, "block", "self", TRUE, TRUE)

\* The kinds of element a page is made of below body. (A visible, topmost,
\* non-interactive element is body itself or an iframe.)
ElementKinds == {Button, HiddenButton, OccludedRole, ScriptEl,
                 IFrameEl, FaultyHost}

\* The element at node n of page d.
Elem(d, n) == d.element[n]

\* Trees over the nodes: node 1 is the root, every other node hangs under one
\* of the two nodes before it; siblings are in document order by number.
Shapes == {p \in [Nodes -> 0 .. MaxNodes] :
             /\ p[1] = 0
             /\ \A n \in Nodes \ {1} : p[n] >= 1 /\ p[n] \in {n - 1, n - 2}}

Pages == {[parentNode |-> p, element |-> e] :
            p \in Shapes,
            e \in {f \in [Nodes -> ElementKinds \cup {BodyElement}] :
                     /\ f[1] = BodyElement
                     /\ \A n \in Nodes \ {1} : f[n] \in ElementKinds}}

RECURSIVE SortedSeq(_)
SortedSeq(S) ==
    IF S = {} THEN <<>>
    ELSE LET m == CHOOSE x \in S : \A y \in S : x <= y
         IN  <<m>> \o SortedSeq(S \ {m})

\* The nodes attached under n, in document order. For an iframe they are the
\* content document's body (the first) ; for a shadow host, the children of
\* its shadow root; otherwise node.childNodes of type element.
childNodes(d, n) == SortedSeq({m \in Nodes : d.parentNode[m] = n})

\* document.querySelector for the selectors the model uses: "#parent"
\* resolves to the first element under body (node 2), "#missing" to no
\* element (0). NoSelector is the default parentSelector: null.
NoSelector == "null"
Selectors == {NoSelector, "#parent", "#missing"}
querySelector(sel) ==
    IF sel = "body" THEN 1
    ELSE IF sel = "#parent" /\ 2 \in Nodes THEN 2 ELSE 0

\* ------------------------------------------------------------------------
\* Advanced highlighter: classification (part_000:393-519)
\* ------------------------------------------------------------------------
UpperCase == <<"A","B","C","D","E","F","G","H","I","J","K","L","M",
               "N","O","P","Q","R","S","T","U","V","W","X","Y","Z">>
LowerCase == <<"a","b","c","d","e","f","g","h","i","j","k","l","m",
               "n","o","p","q","r","s","t","u","v","w","x","y","z">>

\* String.prototype.toLowerCase / includes on a string held as a sequence of
\* characters (class names and roles; an absent or empty role is <<>>).
toLowerCase(s) ==
    [i \in 1 .. Len(s) |->
        IF \E k \in 1 .. 26 : UpperCase[k] = s[i]
        THEN LowerCase[CHOOSE k \in 1 .. 26 : UpperCase[k] = s[i]]
        ELSE s[i]]

includes(s, sub) ==
    \E i \in 0 .. (Len(s) - Len(sub)) : SubSeq(s, i + 1, i + Len(sub)) = sub

interactiveElements ==
    {"a", "button", "details", "embed", "input", "menu", "menuitem",
     "object", "select", "textarea", "canvas", "summary", "dialog"}

\* The roles, each as its sequence of characters.
interactiveRoles ==
    {<<"b","u","t","t","o","n">>,
     <<"l","i","n","k">>,
     <<"c","h","e","c","k","b","o","x">>,
     <<"r","a","d","i","o">>,
     <<"t","a","b">>,
     <<"m","e","n","u">>,
     <<"m","e","n","u","i","t","e","m">>,
     <<"s","l","i","d","e","r">>,
     <<"s","w","i","t","c","h">>,
     <<"t","e","x","t","b","o","x">>,
     <<"c","o","m","b","o","b","o","x">>,
     <<"l","i","s","t","b","o","x">>,
     <<"o","p","t","i","o","n">>,
     <<"s","e","a","r","c","h","b","o","x">>,
     <<"s","p","i","n","b","u","t","t","o","n">>,
     <<"s","c","r","o","l","l","b","a","r">>,
     <<"t","o","o","l","t","i","p">>,
     <<"t","r","e","e","i","t","e","m">>}

clickAttributes ==
    {"onclick", "ng-click", "@click", "v-on:click", "aria-expanded",
     "aria-pressed", "aria-selected", "aria-checked"}

classPatterns ==
    {<<"b","u","t","t","o","n">>, <<"b","t","n">>,
     <<"c","l","i","c","k","a","b","l","e">>,
     <<"i","n","t","e","r","a","c","t","i","v","e">>,
     <<"s","e","l","e","c","t","a","b","l","e">>,
     <<"d","r","o","p","d","o","w","n">>}

\* The same with the role compared as written.
isInteractiveElementRoleAsWritten(e) ==
    \/ e.tagName \in interactiveElements
    \/ (e.role # <<>> /\ e.role \in interactiveRoles)
    \/ (e.tabindex # Absent /\ e.tabindex # "-1")
    \/ e.onclick
    \/ e.attrs \cap clickAttributes # {}
    \/ e.contenteditable = "true"
    \/ e.draggable
    \/ \E cls \in e.classList :
          \E pat \in classPatterns : includes(toLowerCase(cls), pat)

\* part_000:445-499, for an element node
isInteractiveElement(e) ==
    \/ e.tagName \in interactiveElements
    \/ (e.role # <<>> /\ toLowerCase(e.role) \in interactiveRoles)
    \/ (e.tabindex # Absent /\ e.tabindex # "-1")
    \/ e.onclick
    \/ e.attrs \cap clickAttributes # {}
    \/ e.contenteditable = "true"
    \/ e.draggable
    \/ \E cls \in e.classList :
          \E pat \in classPatterns : includes(toLowerCase(cls), pat)

\* part_000:440-443: what the public isInteractiveElement is handed is null,
\* a node that is not an element, or an element.
isInteractiveNode(node) ==
    IF node.nodeType # "ELEMENT_NODE" THEN FALSE
    ELSE isInteractiveElement(node.element)

isElementVisible(e) ==
    /\ e.offsetWidth > 0
    /\ e.offsetHeight > 0
    /\ e.visibility # "hidden"
    /\ e.display # "none"

isTopElement(e) ==
    IF ~e.inViewport THEN TRUE
    ELSE IF e.hit = "throws" THEN TRUE
    ELSE IF e.hit = "null" THEN FALSE
    ELSE e.hit = "self"

alwaysAccept ==
    {"body", "div", "main", "article", "section", "nav", "header", "footer"}

leafElementDenyList ==
    {"svg", "script", "style", "link", "meta", "noscript", "template"}

isElementAccepted(e) ==
    IF e.tagName \in alwaysAccept THEN TRUE
    ELSE e.tagName \notin leafElementDenyList

\* ------------------------------------------------------------------------
\* Advanced highlighter: XPath of an element (part_000:231-265)
\* ------------------------------------------------------------------------
\* The body of an iframe's content document is the first node under it.
IsFrameBody(d, n) ==
    /\ d.parentNode[n] # 0
    /\ Elem(d, d.parentNode[n]).tagName = "iframe"
    /\ n = Head(childNodes(d, d.parentNode[n]))

\* One segment: the tag and, when an earlier sibling has the same nodeName,
\* the 1-based position among them (0 stands for no suffix).
xpathSegment(d, n) ==
    LET sameBefore == {m \in Nodes : /\ m < n
                                     /\ d.parentNode[m] = d.parentNode[n]
                                     /\ Elem(d, m).tagName = Elem(d, n).tagName
                                     /\ ~IsFrameBody(d, n)}
        index == Cardinality(sameBefore)
    IN  <<Elem(d, n).tagName, IF index > 0 THEN index + 1 ELSE 0>>

RECURSIVE getXPathTree(_, _)
getXPathTree(d, n) ==
    LET p == d.parentNode[n]
    IN  IF p = 0 \/ IsFrameBody(d, n)
        THEN <<<<"html", 0>>, xpathSegment(d, n)>>
        ELSE IF Elem(d, p).shadowRoot \/ Elem(d, p).tagName = "iframe"
        THEN <<>>
        ELSE getXPathTree(d, p) \o <<xpathSegment(d, n)>>

\* ------------------------------------------------------------------------
\* Advanced highlighter: overlay drawing and the tree walk
\* ------------------------------------------------------------------------
\* The module's private state, threaded through one handler:
\* [highlightIndex, ID, DOM_HASH_MAP, DOM_CACHE, container, listeners].
\* container.attached says whether #playwright-highlight-container is in the
\* document, container.boxes lists what was appended to it.
NoContainer == [attached |-> FALSE, boxes |-> <<>>]

\* part_000:268-391. Returns the state and the function's return value. The
\* container is looked up or created first; an element whose drawing throws
\* gets neither overlay nor label nor listeners, and `index` is returned.
highlightElement(d, n, index, parentIframe, st) ==
    LET c == IF st.container.attached THEN st.container
             ELSE [attached |-> TRUE, boxes |-> <<>>]
        overlay == [kind |-> "overlay", element |-> n, index |-> index,
                    iframe |-> parentIframe]
        label   == [kind |-> "label", element |-> n, index |-> index,
                    iframe |-> parentIframe]
    IN  IF Elem(d, n).throws
        THEN [st |-> [st EXCEPT !.container = c], ret |-> index]
        ELSE [st |-> [st EXCEPT !.container =
                                   [c EXCEPT !.boxes = @ \o <<overlay, label>>],
                                !.listeners = @ + 2],
              ret |-> index + 1]

\* part_000:576-597: the record of one element. `element` names the element
\* the record was built from; children stays empty, nothing is pushed to it.
nodeData(d, n, hi) ==
    LET e == Elem(d, n)
        tag == e.tagName
        xp == getXPathTree(d, n)
    IN  IF ~isElementVisible(e)
        THEN [tagName |-> tag, xpath |-> xp, children |-> <<>>, element |-> n,
              isVisible |-> FALSE]
        ELSE IF ~isTopElement(e)
        THEN [tagName |-> tag, xpath |-> xp, children |-> <<>>, element |-> n,
              isVisible |-> TRUE, isTopElement |-> FALSE]
        ELSE IF ~isInteractiveElement(e)
        THEN [tagName |-> tag, xpath |-> xp, children |-> <<>>, element |-> n,
              isVisible |-> TRUE, isTopElement |-> TRUE,
              isInteractive |-> FALSE]
        ELSE [tagName |-> tag, xpath |-> xp, children |-> <<>>, element |-> n,
              isVisible |-> TRUE, isTopElement |-> TRUE,
              isInteractive |-> TRUE, highlightIndex |-> hi]

\* The same with the counter left as it was (the post-increment dropped).
indexAndHighlightNoAdvance(d, n, parentIframe, st) ==
    highlightElement(d, n, st.highlightIndex, parentIframe, st).st

\* part_000:590-593: the index is taken and the counter advanced before the
\* overlay is drawn; the value highlightElement returns is not used.
indexAndHighlight(d, n, parentIframe, st) ==
    highlightElement(d, n, st.highlightIndex, parentIframe,
                     [st EXCEPT !.highlightIndex = @ + 1]).st

\* part_000:630-631
storeRecord(st, rec) ==
    [st EXCEPT !.DOM_HASH_MAP = (st.ID :> rec) @@ st.DOM_HASH_MAP,
               !.ID = @ + 1]

\* part_000:560-633
RECURSIVE buildDomTree(_, _, _, _)
RECURSIVE buildChildren(_, _, _, _)
buildChildren(d, kids, parentIframe, st) ==
    IF kids = <<>> THEN st
    ELSE buildChildren(d, Tail(kids), parentIframe,
                       buildDomTree(d, Head(kids), parentIframe, st))

buildDomTree(d, n, parentIframe, st) ==
    LET e == Elem(d, n)
        rec == nodeData(d, n, st.highlightIndex)
        \* isElementVisible caches the computed style, isTopElement the rect
        s1 == [st EXCEPT !.DOM_CACHE.computedStyles = @ \cup {n}]
        s2 == IF rec.isVisible
              THEN [s1 EXCEPT !.DOM_CACHE.boundingRects = @ \cup {n}]
              ELSE s1
        s3 == IF "highlightIndex" \in DOMAIN rec
              THEN indexAndHighlight(d, n, parentIframe, s2)
              ELSE s2
        kids == childNodes(d, n)
        s4 == IF e.tagName = "iframe"
              THEN IF kids # <<>>
                   THEN buildDomTree(d, Head(kids), n, s3)
                   ELSE s3
              ELSE buildChildren(d, kids, parentIframe, s3)
    IN  IF ~isElementAccepted(e) THEN st
        ELSE storeRecord(s4, rec)

\* part_000:636-641
removeAllHighlights(st) == [st EXCEPT !.container = NoContainer]

\* The same with the index counter carried over from the scan before.
resetForScanKeepIndex(st) ==
    removeAllHighlights(
        [st EXCEPT !.ID = 0,
                   !.DOM_CACHE = [boundingRects |-> {}, computedStyles |-> {}]])

\* part_000:533-539: what a scan resets before it walks the DOM.
resetForScan(st) ==
    removeAllHighlights(
        [st EXCEPT !.highlightIndex = 0,
                   !.ID = 0,
                   !.DOM_CACHE = [boundingRects |-> {}, computedStyles |-> {}]])

\* part_000:524-531: the options a caller passes are a record with some of
\* the four fields; config is the defaults overridden by them.
defaults ==
    [doHighlightElements |-> TRUE, focusHighlightIndex |-> -1,
     viewportExpansion |-> 0, parentSelector |-> NoSelector]

config(options) ==
    [f \in DOMAIN defaults |->
        IF f \in DOMAIN options THEN options[f] ELSE defaults[f]]

\* part_000:542-551
startNode(cfg) ==
    IF cfg.parentSelector # NoSelector
       /\ querySelector(cfg.parentSelector) # 0
    THEN querySelector(cfg.parentSelector)
    ELSE 1

\* The same with the walk made only when doHighlightElements is set.
findAndHighlightInteractiveElementsWhenAsked(d, options, st) ==
    LET s0 == resetForScan(st)
        s1 == IF config(options).doHighlightElements
              THEN buildDomTree(d, startNode(config(options)), 0, s0)
              ELSE s0
    IN  [st |-> s1, ret |-> s1.highlightIndex, atWalk |-> s0]

\* part_000:522-557. atWalk is the state handed to buildDomTree.
findAndHighlightInteractiveElements(d, options, st) ==
    LET s0 == resetForScan(st)
        s1 == buildDomTree(d, startNode(config(options)), 0, s0)
    IN  [st |-> s1, ret |-> s1.highlightIndex, atWalk |-> s0]

\* ------------------------------------------------------------------------
\* highlightAllText (part_000:644-736)
\* ------------------------------------------------------------------------
\* A text node is [textContent, rects]: its characters and what
\* range.getClientRects() returns for it, a rectangle being [width, height].
StyleEl == El("style", <<>>, {}, "none", "self", FALSE, FALSE)

\* A space between two inline elements, and a sentence wrapped over two
\* lines with an empty rectangle at the break.
Blank   == [textContent |-> <<" ">>,
            rects |-> <<[width |-> 4, height |-> 12]>>]
Wrapped == [textContent |-> <<" ","a"," ","b","\n">>,
            rects |-> <<[width |-> 30, height |-> 12],
                        [width |-> 0, height |-> 12],
                        [width |-> 30, height |-> 12]>>]

\* The text nodes under one element: none or one of the two.
TextChildren == {<<>>, <<Blank>>, <<Wrapped>>}

TextPages == {[parentNode |-> p, element |-> e] :
                p \in Shapes,
                e \in {f \in [Nodes -> {BodyElement, Button, ScriptEl, StyleEl}] :
                         /\ f[1] = BodyElement
                         /\ \A n \in Nodes \ {1} : f[n] # BodyElement}}

TextSelectors == {"body", "#parent", "#missing"}

\* String.prototype.trim
WhiteSpace == {" ", "\n", "\t"}

RECURSIVE trim(_)
trim(s) ==
    IF s = <<>> THEN s
    ELSE IF Head(s) \in WhiteSpace THEN trim(Tail(s))
    ELSE IF s[Len(s)] \in WhiteSpace THEN trim(SubSeq(s, 1, Len(s) - 1))
    ELSE s

\* The same loop without the test on the rectangle's size.
RECURSIVE drawRectsUnchecked(_, _, _, _, _)
drawRectsUnchecked(rects, i, n, k, st) ==
    IF i > Len(rects) THEN st
    ELSE drawRectsUnchecked(rects, i + 1, n, k,
             [st EXCEPT !.container.boxes =
                            @ \o <<[kind |-> "text", element |-> n, text |-> k,
                                    rect |-> i, index |-> st.highlightIndex]>>,
                        !.highlightIndex = @ + 1])

\* part_000:693-720: one box for each rectangle, from the i-th on, of the
\* k-th text node under element n, if it has a width and a height.
RECURSIVE drawRects(_, _, _, _, _)
drawRects(rects, i, n, k, st) ==
    IF i > Len(rects) THEN st
    ELSE drawRects(rects, i + 1, n, k,
             IF rects[i].width > 0 /\ rects[i].height > 0
             THEN [st EXCEPT !.container.boxes =
                                 @ \o <<[kind |-> "text", element |-> n, text |-> k,
                                         rect |-> i, index |-> st.highlightIndex]>>,
                             !.highlightIndex = @ + 1]
             ELSE st)

\* part_000:682-722 on the text nodes of element n, from the k-th on.
RECURSIVE processTexts(_, _, _, _)
processTexts(texts, k, n, st) ==
    IF k > Len(texts) THEN st
    ELSE processTexts(texts, k + 1, n,
             IF Len(trim(texts[k].textContent)) > 0
             THEN drawRects(texts[k].rects, 1, n, k, st)
             ELSE st)

\* part_000:676-728 on element n of page d whose text nodes are td: the
\* element's text nodes, then its child elements in document order.
RECURSIVE processTextNodes(_, _, _, _)
RECURSIVE processChildNodes(_, _, _, _)
processChildNodes(d, td, kids, st) ==
    IF kids = <<>> THEN st
    ELSE processChildNodes(d, td, Tail(kids),
                           processTextNodes(d, td, Head(kids), st))

processTextNodes(d, td, n, st) ==
    IF Elem(d, n).tagName \in {"script", "style"} THEN st
    ELSE processChildNodes(d, td, childNodes(d, n),
                           processTexts(td[n], 1, n, st))

\* part_000:644-736
highlightAllText(d, td, parentSelector, st) ==
    LET s0 == removeAllHighlights(
                  [st EXCEPT !.highlightIndex = 0,
                             !.ID = 0,
                             !.DOM_CACHE = [boundingRects |-> {},
                                            computedStyles |-> {}]])
        parentElement == querySelector(parentSelector)
        s1 == [s0 EXCEPT !.container = [attached |-> TRUE, boxes |-> <<>>]]
        s2 == processTextNodes(d, td, parentElement, s1)
    IN  IF parentElement = 0
        THEN [st |-> s0, ret |-> 0]
        ELSE [st |-> s2, ret |-> s2.highlightIndex]

\* ------------------------------------------------------------------------
\* Advanced highlighter: state and actions
\* ------------------------------------------------------------------------
advState ==
    [highlightIndex |-> highlightIndex, ID |-> ID,
     DOM_HASH_MAP |-> DOM_HASH_MAP, DOM_CACHE |-> DOM_CACHE,
     container |-> container, listeners |-> listeners]

SetAdvState(st) ==
    /\ highlightIndex' = st.highlightIndex
    /\ ID' = st.ID
    /\ DOM_HASH_MAP' = st.DOM_HASH_MAP
    /\ DOM_CACHE' = st.DOM_CACHE
    /\ container' = st.container
    /\ listeners' = st.listeners

\* part_000:177-199: the state when the script has been loaded.
AdvInit ==
    /\ dom \in Pages
    /\ highlightIndex = 0
    /\ ID = 0
    /\ DOM_HASH_MAP = << >>
    /\ DOM_CACHE = [boundingRects |-> {}, computedStyles |-> {}]
    /\ container = NoContainer
    /\ listeners = 0
    /\ scanCall = [n |-> 0]

\* window.elementHighlighter.findAndHighlightInteractiveElements(options)
FindAndHighlight(options) ==
    /\ scanCall.n < MaxScans
    /\ LET r == findAndHighlightInteractiveElements(
                    dom, options, advState)
       IN  /\ SetAdvState(r.st)
           /\ scanCall' = [n |-> scanCall.n + 1,
                           options |-> options,
                           start |-> startNode(config(options)),
                           ret |-> r.ret,
                           repeat |-> IF scanCall.n = 0 THEN FALSE
                                      ELSE /\ scanCall.start =
                                                startNode(config(options))
                                           /\ ~container.attached,
                           overlaid |-> {r.st.container.boxes[i].element :
                                           i \in {j \in DOMAIN r.st.container.boxes :
                                              r.st.container.boxes[j].kind = "overlay"}},
                           atWalk |-> [highlightIndex |-> r.atWalk.highlightIndex,
                                       ID |-> r.atWalk.ID,
                                       DOM_CACHE |-> r.atWalk.DOM_CACHE,
                                       recordIds |-> DOMAIN r.atWalk.DOM_HASH_MAP,
                                       container |-> r.atWalk.container]]
    /\ UNCHANGED <<dom, basicVars, photoVars, otherVars>>

\* window.elementHighlighter.highlightAllText(parentSelector)
HighlightAllText(sel) ==
    /\ LET r == highlightAllText(dom, textDom, sel, advState)
       IN  /\ SetAdvState(r.st)
           /\ textCall' = [op |-> "highlightAllText", parentSelector |-> sel,
                           ret |-> r.ret]
    /\ UNCHANGED <<dom, scanCall, textDom, basicVars, photoVars, panelVars, probe>>

\* window.elementHighlighter.removeAllHighlights()
RemoveAllHighlightsAdv ==
    /\ SetAdvState(removeAllHighlights(advState))
    /\ UNCHANGED <<dom, scanCall, basicVars, photoVars, otherVars>>


\* ------------------------------------------------------------------------
\* Basic highlighter (part_000:8-168)
\* ------------------------------------------------------------------------
\* The handlers work on [highlights, overlays, timers, keyframes]. An entry
\* is [id, element, selector, timer] as in the source; element is the
\* overlay's identity, rect the position written to its style, duration the
\* config.duration it was created with. A timer is [handle, id, entry]:
\* the setTimeout handle, the id its callback closes over, and the overlay
\* of the entry pushed by the call that scheduled it.
NoTimer == 0
\* An id is its text: a prefix and, for a generated id, the random suffix.
IdText(prefix, suffix) == [prefix |-> prefix, suffix |-> suffix]
AutoId == IdText("<auto>", 0)        \* options without an id
\* The null that highlight returns, comparable with the ids.
Null == IdText("<null>", 0)
CallerIds == {IdText("x", 0)}        \* an id given in options.id
Durations == {0, 1000}
BasicSelectors == {"#a", "#none"}
Layouts == {0, 1}

\* document.querySelector(selector) finds an element
Matches(selector) == selector = "#a"

basicState ==
    [highlights |-> highlights, overlays |-> overlays, timers |-> timers,
     keyframes |-> keyframes]

SeqRange(q) == {q[i] : i \in 1 .. Len(q)}

\* The smallest positive number outside S: a new DOM element's identity, a
\* new setTimeout handle.
Fresh(S) == CHOOSE k \in 1 .. (Cardinality(S) + 1) :
               k \notin S /\ \A j \in 1 .. (k - 1) : j \in S

\* A number no tracked entry, overlay or pending callback carries: it names
\* the overlay a highlight call creates, the handle setTimeout returns to it
\* and the random part of the id it generates (part_000:22, 25, 74).
FreshKey(bs) ==
    Fresh({h.element : h \in SeqRange(bs.highlights)}
          \cup {h.timer : h \in SeqRange(bs.highlights)}
          \cup {h.id.suffix : h \in SeqRange(bs.highlights)}
          \cup bs.overlays
          \cup {t.entry : t \in bs.timers} \cup {t.handle : t \in bs.timers}
          \cup {t.id.suffix : t \in bs.timers})

\* part_000:22: 'highlight-' + Math.random().toString(36).substr(2, 9)
randomId(bs) == IdText("highlight-", FreshKey(bs))

\* Array.prototype.findIndex: first index with that id, 0 when none (-1).
findIndex(hs, id) ==
    IF \E i \in 1 .. Len(hs) : hs[i].id = id
    THEN CHOOSE i \in 1 .. Len(hs) :
            hs[i].id = id /\ \A j \in 1 .. (i - 1) : hs[j].id # id
    ELSE 0

RemoveAt(q, i) == SubSeq(q, 1, i - 1) \o SubSeq(q, i + 1, Len(q))

\* part_000:11-86
highlightBody(bs, selector, options, rect) ==
    LET id == IF options.id = AutoId THEN randomId(bs) ELSE options.id
        el == FreshKey(bs)
        entry == [id |-> id, element |-> el, selector |-> selector,
                  timer |-> NoTimer, rect |-> rect, duration |-> options.duration]
        pushed == Append(bs.highlights, entry)
        handle == FreshKey(bs)
        first == findIndex(pushed, id)
        s1 == [bs EXCEPT !.highlights = pushed,
                         !.overlays = @ \cup {el},
                         !.keyframes = @ \/ options.pulseEffect]
    IN  IF options.duration > 0
        THEN [st |-> [s1 EXCEPT !.timers = @ \cup {[handle |-> handle, id |-> id,
                                                    entry |-> el]},
                                !.highlights[first].timer = handle],
              ret |-> id]
        ELSE [st |-> s1, ret |-> id]

\* The same without the early return for an unmatched selector.
highlightUnchecked(bs, selector, options, rect) ==
    highlightBody(bs, selector, options, rect)

highlight(bs, selector, options, rect) ==
    IF ~Matches(selector) THEN [st |-> bs, ret |-> Null]
    ELSE highlightBody(bs, selector, options, rect)

\* part_000:88-108
removeHighlight(bs, id) ==
    LET index == findIndex(bs.highlights, id)
        h == bs.highlights[index]
    IN  IF index # 0
        THEN [st |-> [bs EXCEPT
                        !.timers = {t \in @ : t.handle # h.timer},
                        !.overlays = @ \ {h.element},
                        !.highlights = RemoveAt(@, index)],
              ret |-> TRUE]
        ELSE [st |-> bs, ret |-> FALSE]

\* part_000:110-120
RECURSIVE removeEach(_, _)
removeEach(bs, ids) ==
    IF ids = <<>> THEN bs
    ELSE removeEach(removeHighlight(bs, Head(ids)).st, Tail(ids))

basicRemoveAllHighlights(bs) ==
    LET highlightIds == [i \in 1 .. Len(bs.highlights) |-> bs.highlights[i].id]
    IN  [st |-> removeEach(bs, highlightIds), ret |-> Len(highlightIds)]

\* part_000:122-137
updateHighlightPosition(bs, id, rect) ==
    LET index == findIndex(bs.highlights, id)
    IN  IF index = 0 THEN [st |-> bs, ret |-> FALSE]
        ELSE IF ~Matches(bs.highlights[index].selector)
        THEN [st |-> bs, ret |-> FALSE]
        ELSE [st |-> [bs EXCEPT !.highlights[index].rect = rect], ret |-> TRUE]

\* part_000:139-145
RECURSIVE updateEach(_, _, _)
updateEach(bs, ids, rect) ==
    IF ids = <<>> THEN bs
    ELSE updateEach(updateHighlightPosition(bs, Head(ids), rect).st,
                    Tail(ids), rect)

updateAllHighlightPositions(bs, rect) ==
    [st |-> updateEach(bs, [i \in 1 .. Len(bs.highlights) |-> bs.highlights[i].id],
                       rect),
     ret |-> Len(bs.highlights)]

\* The operations each script's object has (part_000:8-146, 739-744).
BasicApi == {"highlight", "removeHighlight", "removeAllHighlights",
             "updateHighlightPosition", "updateAllHighlightPositions"}
AdvancedApi == {"findAndHighlightInteractiveElements", "removeAllHighlights",
                "isInteractiveElement", "highlightAllText"}
\* window.elementHighlighter is the object the last script assigned.
elementHighlighter == loaded[Len(loaded)]
Api == IF elementHighlighter = "basic" THEN BasicApi ELSE AdvancedApi

SetBasicState(st) ==
    /\ highlights' = st.highlights
    /\ overlays' = st.overlays
    /\ timers' = st.timers
    /\ keyframes' = st.keyframes

BasicEmpty ==
    /\ highlights = <<>>
    /\ overlays = {}
    /\ timers = {}
    /\ keyframes = FALSE
    /\ layout = 0
    /\ observerError = FALSE
    /\ basicCall = [op |-> "load"]
    /\ history = [pristine |-> TRUE, created |-> 0]

\* The page after the first script of part_000 has run.
BasicInit ==
    /\ loaded = <<"basic">>
    /\ BasicEmpty

\* The entry a removeHighlight(id) call drops, as [element, duration];
\* element 0 when it drops none.
Removed(id) ==
    LET index == findIndex(highlights, id)
    IN  IF index = 0 THEN [element |-> 0, duration |-> 0]
        ELSE [element |-> highlights[index].element,
              duration |-> highlights[index].duration]

Touched == [pristine |-> FALSE, created |-> 0]

\* window.elementHighlighter.highlight(selector, options)
Highlight(selector, id, duration) ==
    /\ elementHighlighter = "basic"
    /\ Len(highlights) < MaxHighlights
    /\ Cardinality(timers) < MaxTimers
    /\ LET r == highlight(basicState, selector,
                          [id |-> id, duration |-> duration, pulseEffect |-> TRUE],
                          layout)
       IN  /\ SetBasicState(r.st)
           /\ basicCall' = [op |-> "highlight", selector |-> selector,
                            ret |-> r.ret]
           /\ history' = IF r.ret # Null /\ history.pristine
                         THEN [history EXCEPT !.created = @ + 1]
                         ELSE history
    /\ UNCHANGED <<loaded, layout, observerError, advVars, photoVars, otherVars>>

\* window.elementHighlighter.removeHighlight(id)
RemoveHighlight(id) ==
    /\ elementHighlighter = "basic"
    /\ LET r == removeHighlight(basicState, id)
       IN  /\ SetBasicState(r.st)
           /\ basicCall' = [op |-> "removeHighlight", id |-> id, ret |-> r.ret,
                            removed |-> Removed(id)]
           /\ history' = IF r.ret THEN Touched ELSE history
    /\ UNCHANGED <<loaded, layout, observerError, advVars, photoVars, otherVars>>

\* window.elementHighlighter.removeAllHighlights() of the basic script
RemoveAllHighlights ==
    /\ elementHighlighter = "basic"
    /\ LET r == basicRemoveAllHighlights(basicState)
       IN  /\ SetBasicState(r.st)
           /\ basicCall' = [op |-> "removeAllHighlights", ret |-> r.ret,
                            before |-> Len(highlights), history |-> history]
           /\ history' = Touched
    /\ UNCHANGED <<loaded, layout, observerError, advVars, photoVars, otherVars>>

\* A pending auto-removal timer expires (part_000:74-76).
TimerFires(t) ==
    /\ t \in timers
    /\ LET r == removeHighlight([basicState EXCEPT !.timers = @ \ {t}], t.id)
       IN  /\ SetBasicState(r.st)
           /\ basicCall' = [op |-> "timer", entry |-> t.entry,
                            removed |-> Removed(t.id)]
           /\ history' = Touched
    /\ UNCHANGED <<loaded, layout, observerError, advVars, photoVars, otherVars>>

\* window.elementHighlighter.updateHighlightPosition(id)
UpdateHighlightPosition(id) ==
    /\ elementHighlighter = "basic"
    /\ LET r == updateHighlightPosition(basicState, id, layout)
       IN  /\ SetBasicState(r.st)
           /\ basicCall' = [op |-> "updateHighlightPosition"]
    /\ UNCHANGED <<loaded, layout, observerError, history, advVars, photoVars, otherVars>>

\* The page changes (elements move) and the mutation observer's callback
\* runs window.elementHighlighter.updateAllHighlightPositions()
\* (part_000:149-152); with the other script's object in place the call
\* is a TypeError.
MutationBatch(newLayout) ==
    /\ layout' = newLayout
    /\ IF "updateAllHighlightPositions" \in Api
       THEN LET r == updateAllHighlightPositions(basicState, newLayout)
            IN  /\ SetBasicState(r.st)
                /\ basicCall' = [op |-> "updateAllHighlightPositions"]
                /\ UNCHANGED observerError
       ELSE /\ observerError' = TRUE
            /\ basicCall' = [op |-> "updateAllHighlightPositions"]
            /\ UNCHANGED <<highlights, overlays, timers, keyframes>>
    /\ UNCHANGED <<loaded, history, advVars, photoVars, otherVars>>

\* The second script of part_000 runs (part_000:177): it assigns
\* window.elementHighlighter again.
LoadAdvanced ==
    /\ loaded = <<"basic">>
    /\ loaded' = Append(loaded, "advanced")
    /\ basicCall' = [op |-> "load"]
    /\ UNCHANGED <<highlights, overlays, timers, keyframes, layout,
                   observerError, history, advVars, photoVars, otherVars>>



\* ------------------------------------------------------------------------
\* Properties of the basic highlighter
\* ------------------------------------------------------------------------
TrackedElements == {h.element : h \in SeqRange(highlights)}

\* C4: no two tracked entries have the same id.
C4_UniqueIds ==
    \A i, j \in 1 .. Len(highlights) :
        highlights[i].id = highlights[j].id => i = j

\* C5: removeHighlight(id) on a tracked entry cancels the entry's timer,
\* detaches its overlay, drops it and returns true (false when no entry has
\* the id); no pending timer is for an entry that is no longer tracked, and a
\* timer that fires removes no entry but the one it was scheduled for.
C5_RemovalCancelsTimer ==
    /\ \A t \in timers : t.entry \in TrackedElements
    /\ basicCall.op = "timer" =>
          basicCall.removed.element \in {0, basicCall.entry}
    /\ basicCall.op = "removeHighlight" =>
          IF basicCall.ret
          THEN /\ basicCall.removed.element \notin TrackedElements
               /\ basicCall.removed.element \notin overlays
               /\ \A t \in timers : t.entry # basicCall.removed.element
          ELSE \A h \in SeqRange(highlights) : h.id # basicCall.id

\* C6: removeAllHighlights() leaves no tracked entry, no overlay and no
\* pending timer, and returns the number of entries it removed; after N
\* successful highlight calls and nothing else removed, that number is N.
C6_RemoveAllLeavesNothing ==
    basicCall.op = "removeAllHighlights" =>
        /\ highlights = <<>>
        /\ overlays = {}
        /\ timers = {}
        /\ basicCall.ret = basicCall.before
        /\ basicCall.history.pristine => basicCall.ret = basicCall.history.created

\* C7: an entry created with a positive duration has its timer pending until
\* it is removed, so it is removed when the timer expires; an entry created
\* with duration <= 0 has no timer and is removed by no timer.
C7_AutoRemovalByDuration ==
    /\ \A h \in SeqRange(highlights) :
          IF h.duration > 0
          THEN \E t \in timers : t.entry = h.element
          ELSE h.timer = NoTimer
    /\ (basicCall.op = "timer" /\ basicCall.removed.element # 0) =>
          basicCall.removed.duration > 0

\* C8: highlight(selector, options) with a selector that matches no element
\* returns null and changes nothing: no overlay, no entry, no timer, and the
\* existing entries as they were.
C8_UnmatchedSelectorNoEffect ==
    [][(basicCall'.op = "highlight" /\ ~Matches(basicCall'.selector))
          => /\ basicCall'.ret = Null
             /\ UNCHANGED <<highlights, overlays, timers, keyframes>>]_vars

\* An unmatched highlight call made while an entry with a timer is tracked.
C8_Witness ==
    /\ basicCall.op = "highlight"
    /\ ~Matches(basicCall.selector)
    /\ basicCall.ret = Null
    /\ highlights # <<>>
    /\ timers # {}

\* C9: once both highlighter scripts are loaded, the operations of both are
\* callable on window.elementHighlighter and the mutation observer's
\* callback runs updateAllHighlightPositions without error.
C9_BothScriptsCallable ==
    loaded = <<"basic", "advanced">> =>
        /\ BasicApi \cup AdvancedApi \subseteq Api
        /\ ~observerError

\* ------------------------------------------------------------------------
\* Photo display (static/js/photo_display.js)
\* ------------------------------------------------------------------------
MaxDisplays == 2

\* A numeric argument or field that was not supplied (undefined).
Undefined == -1

\* Truthiness of a number: neither undefined nor 0.
TruthyNumber(x) == x # Undefined /\ x # 0

\* The metrics argument: whether an object was given and which of the four
\* fields it has.
MetricKeys == {"symmetry", "golden_ratio", "thirds", "eye_spacing"}
NoMetrics == [given |-> FALSE, keys |-> {}]
MetricsObjects == [given : {TRUE}, keys : SUBSET MetricKeys]

\* Arguments of displayPhoto.  landmarks is the array's length (0 for a
\* missing or empty array).
PhotoInputs ==
    [landmarks : {0, 5, 68}, attractivenessScore : {0, 7},
     metrics : {NoMetrics, [given |-> TRUE, keys |-> MetricKeys]},
     originalWidth : {0, 640}, originalHeight : {480}]

\* Arguments for one rendering: no landmarks or 68 of them, a score of the
\* range 0 to 10 or none, any metrics object or none.
RenderInputs ==
    [landmarks : {0, 68}, attractivenessScore : {Undefined, 0, 5, 6, 7, 8, 10},
     metrics : {NoMetrics} \cup MetricsObjects,
     originalWidth : {640}, originalHeight : {480}]

\* The highest landmark index the outline drawing reads (connectPoints).
LastOutlineIndex == 67

\* document.getElementById('photo-display-container'): the first attached
\* container, 0 when there is none.
getElementById(ps) ==
    IF \E i \in 1 .. Len(ps) : ps[i].attached
    THEN CHOOSE i \in 1 .. Len(ps) :
            ps[i].attached /\ \A j \in 1 .. (i - 1) : ~ps[j].attached
    ELSE 0

\* element.remove()
remove(ps, i) == IF i = 0 THEN ps ELSE [ps EXCEPT ![i].attached = FALSE]

\* panel is what the metrics overlay holds: the score heading ("score", in
\* `color`, followed by `lines`) or the notice ("unavailable").
newContainer(args) ==
    [attached |-> TRUE, loaded |-> FALSE, canvas |-> FALSE, panel |-> "none",
     color |-> "", lines |-> {}, args |-> args]

\* The same without removing the container that is already shown.
displayPhotoKeepExisting(ps, args) ==
    Append(ps, newContainer(args))

\* photo_display.js:19-189
displayPhoto(ps, args) ==
    Append(remove(ps, getElementById(ps)), newContainer(args))

\* photo_display.js:194-199
removePhotoDisplay(ps) == remove(ps, getElementById(ps))

\* The same with the upper threshold exclusive.
getScoreColorAbove(score) ==
    IF score > 8 THEN "#4CAF50"
    ELSE IF score >= 6 THEN "#FFC107"
    ELSE "#F44336"

\* photo_display.js:203-207
getScoreColor(score) ==
    IF score >= 8 THEN "#4CAF50"
    ELSE IF score >= 6 THEN "#FFC107"
    ELSE "#F44336"

\* img.onload of container i (photo_display.js:61-177): it appends to the
\* wrapper of its own call.  Drawing the outline of fewer than 68 points
\* throws before anything is appended.
onload(ps, i) ==
    LET a == ps[i].args
        draw == a.landmarks > 0 /\ a.originalWidth # 0 /\ a.originalHeight # 0
    IN  IF draw /\ a.landmarks <= LastOutlineIndex
        THEN [ps EXCEPT ![i].loaded = TRUE]
        ELSE IF TruthyNumber(a.attractivenessScore) /\ a.metrics.given
        THEN [ps EXCEPT ![i].loaded = TRUE,
                        ![i].canvas = draw,
                        ![i].panel = "score",
                        ![i].color = getScoreColor(a.attractivenessScore),
                        ![i].lines = a.metrics.keys]
        ELSE [ps EXCEPT ![i].loaded = TRUE,
                        ![i].canvas = draw,
                        ![i].panel = "unavailable",
                        ![i].color = "red"]

PhotoEmpty ==
    /\ photos = <<>>
    /\ photoCall = [op |-> "none", display |-> 0]

\* window.photoDisplay.displayPhoto(url, landmarks, ...)
DisplayPhoto(args) ==
    /\ Len(photos) < MaxDisplays
    /\ photos' = displayPhoto(photos, args)
    /\ photoCall' = [op |-> "displayPhoto", display |-> Len(photos) + 1]
    /\ UNCHANGED <<advVars, basicVars, otherVars>>

\* window.photoDisplay.removePhotoDisplay()
RemovePhotoDisplay ==
    /\ photos' = removePhotoDisplay(photos)
    /\ photoCall' = [op |-> "removePhotoDisplay", display |-> getElementById(photos)]
    /\ UNCHANGED <<advVars, basicVars, otherVars>>

\* A click on the container that is shown (photo_display.js:183-185)
Click(i) ==
    /\ photos[i].attached
    /\ photos' = remove(photos, i)
    /\ photoCall' = [op |-> "click", display |-> i]
    /\ UNCHANGED <<advVars, basicVars, otherVars>>

\* The image of container i finishes loading, attached or not.
ImageLoad(i) ==
    /\ ~photos[i].loaded
    /\ photos' = onload(photos, i)
    /\ photoCall' = [op |-> "load", display |-> i]
    /\ UNCHANGED <<advVars, basicVars, otherVars>>

PhotoNext ==
    \/ \E args \in PhotoInputs : DisplayPhoto(args)
    \/ RemovePhotoDisplay
    \/ \E i \in 1 .. Len(photos) : Click(i)
    \/ \E i \in 1 .. Len(photos) : ImageLoad(i)

\* One photo displayed on a page that has shown none.
RenderNext ==
    \/ \E args \in RenderInputs : photos = <<>> /\ DisplayPhoto(args)
    \/ RemovePhotoDisplay
    \/ \E i \in 1 .. Len(photos) : Click(i)
    \/ \E i \in 1 .. Len(photos) : ImageLoad(i)

Attached == {i \in 1 .. Len(photos) : photos[i].attached}

\* C10: at most one photo display container is attached; removePhotoDisplay
\* with none attached changes nothing; and an image load that completes for
\* a container no longer attached does not re-attach it and changes no other
\* container.
C10_SingleDisplay ==
    /\ [](Cardinality(Attached) <= 1)
    /\ [][/\ (photoCall'.op = "removePhotoDisplay" /\ Attached = {})
                => photos' = photos
          /\ (photoCall'.op = "load" /\ photoCall'.display \notin Attached)
                => /\ ~photos'[photoCall'.display].attached
                   /\ \A j \in 1 .. Len(photos) :
                         j # photoCall'.display => photos'[j] = photos[j]]_vars

\* The image of a replaced container finished loading while the container
\* that replaced it is shown and still waiting for its own image.
C10_Witness ==
    /\ photoCall.op = "load"
    /\ ~photos[photoCall.display].attached
    /\ photos[photoCall.display].panel # "none"
    /\ \E j \in Attached : ~photos[j].loaded /\ photos[j].panel = "none"

\* C14: once the image has loaded, the metrics panel with the score heading
\* is rendered if and only if a score (any value from 0 to 10) and a
\* metrics object were supplied, otherwise the 'Facial analysis
\* unavailable.' notice; the panel has a line for exactly the metrics
\* fields that are present.
C14_PanelIffScoreAndMetrics ==
    \A i \in 1 .. Len(photos) :
        photos[i].loaded =>
            LET a == photos[i].args
                supplied == a.attractivenessScore # Undefined /\ a.metrics.given
            IN  /\ photos[i].panel = (IF supplied THEN "score" ELSE "unavailable")
                /\ supplied => photos[i].lines = a.metrics.keys

\* C18: the score heading is #4CAF50 for a score >= 8, #FFC107 for a score
\* from 6 to below 8 and #F44336 below 6, whatever the other arguments; a
\* score of 7 is #FFC107.
C18_HeadingColourByScore ==
    \A i \in 1 .. Len(photos) :
        photos[i].panel = "score" =>
            LET score == photos[i].args.attractivenessScore
            IN  /\ score >= 8 => photos[i].color = "#4CAF50"
                /\ (6 <= score /\ score < 8) => photos[i].color = "#FFC107"
                /\ score < 6 => photos[i].color = "#F44336"
                /\ score = 7 => photos[i].color = "#FFC107"

\* The panel of a score at the upper threshold has been rendered.
C18_Witness ==
    \E i \in 1 .. Len(photos) :
        /\ photos[i].panel = "score"
        /\ photos[i].args.attractivenessScore = 8
        /\ photos[i].color = "#4CAF50"
        /\ photos[i].args.metrics.keys = {"thirds"}

\* ------------------------------------------------------------------------
\* Loading indicator (README.md:185-261)
\* ------------------------------------------------------------------------
MaxShows == 2       \* show() calls per run (each leaves a <style> in head)

NoNode == 0
Messages == {"Loading...", "Scanning"}

loadingState ==
    [loadingContainer |-> loadingContainer, body |-> loadingBody,
     headStyles |-> headStyles]

\* document.body.removeChild(node)
removeChild(body, node) == SelectSeq(body, LAMBDA c : c.node # node)

\* README.md:254-259
hide(ls) ==
    IF ls.loadingContainer # NoNode
    THEN [ls EXCEPT !.body = removeChild(@, ls.loadingContainer),
                    !.loadingContainer = NoNode]
    ELSE ls

\* README.md:193-251: the container of a show(message) call
showContainer(ls, message) ==
    LET node == Fresh({c.node : c \in SeqRange(ls.body)})
    IN  [ls EXCEPT !.body = Append(@, [node |-> node, message |-> message]),
                   !.headStyles = @ + 1,
                   !.loadingContainer = node]

\* The same without hiding the indicator that is already shown.
showKeepExisting(ls, message) ==
    showContainer(ls, message)

\* README.md:189-252
show(ls, message) ==
    showContainer(hide(ls), message)

SetLoadingState(ls) ==
    /\ loadingContainer' = ls.loadingContainer
    /\ loadingBody' = ls.body
    /\ headStyles' = ls.headStyles

LoadingEmpty ==
    /\ loadingContainer = NoNode
    /\ loadingBody = <<>>
    /\ headStyles = 0
    /\ loadingCall = [op |-> "none"]

\* ------------------------------------------------------------------------
\* Research panel (README.md:47-176)
\* ------------------------------------------------------------------------
MaxEntries == 2     \* entries of data.metadata

\* Likeness scores in tenths of a percent point: 0, 87.4, 87.6.
LikenessScores == {Undefined, 0, 874, 876}

\* A missing url or thumbnailUrl is "", which is as falsy as undefined.
MetadataEntries ==
    [url : {"", "https://x/full"},
     thumbnailUrl : {"", "https://x/thumb1", "https://x/thumb2"},
     likenessScore : LikenessScores]

SeqsUpTo(S, n) == UNION {[1 .. k -> S] : k \in 0 .. n}

ResearchInputs ==
    [name : {"", "Ada"}, description : {"", "bio"},
     metadata : SeqsUpTo(MetadataEntries, MaxEntries)]

\* Math.round on a value in tenths: the nearest integer, halves upwards.
MathRound(tenths) == (tenths + 5) \div 10

\* README.md:131-159: the card of one metadata entry; match holds the
\* number of its 'Match: r%' line when it has one.
card(item) ==
    [href |-> IF item.url # "" THEN item.url ELSE "#",
     src |-> item.thumbnailUrl,
     match |-> IF TruthyNumber(item.likenessScore)
               THEN <<MathRound(item.likenessScore)>> ELSE <<>>]

\* A card for every entry, with or without a thumbnail.
RECURSIVE cardsUnfiltered(_)
cardsUnfiltered(metadata) ==
    IF metadata = <<>> THEN <<>>
    ELSE <<card(Head(metadata))>> \o cardsUnfiltered(Tail(metadata))

\* README.md:129-163: data.metadata.forEach
RECURSIVE cards(_)
cards(metadata) ==
    IF metadata = <<>> THEN <<>>
    ELSE (IF Head(metadata).thumbnailUrl # "" THEN <<card(Head(metadata))>>
          ELSE <<>>) \o cards(Tail(metadata))

\* README.md:80-166: what displayResearch puts in the container
panelContent(data) ==
    [name |-> IF data.name # "" THEN <<data.name>> ELSE <<>>,
     description |-> IF data.description # "" THEN <<data.description>> ELSE <<>>,
     grid |-> IF Len(data.metadata) > 0 THEN <<cards(data.metadata)>> ELSE <<>>]

researchState == [displayContainer |-> displayContainer, body |-> researchBody]

\* README.md:169-174
removeResearchDisplay(rs) ==
    IF rs.displayContainer # NoNode
    THEN [rs EXCEPT !.body = removeChild(@, rs.displayContainer),
                    !.displayContainer = NoNode]
    ELSE rs

\* README.md:51-75; the container starts empty
createDisplayContainer(rs) ==
    LET r1 == removeResearchDisplay(rs)
        node == Fresh({c.node : c \in SeqRange(r1.body)})
    IN  [r1 EXCEPT !.body = Append(@, [node |-> node, content |-> <<>>]),
                   !.displayContainer = node]

\* README.md:77-167
displayResearch(rs, data) ==
    LET r1 == createDisplayContainer(rs)
        at == CHOOSE i \in 1 .. Len(r1.body) : r1.body[i].node = r1.displayContainer
    IN  [r1 EXCEPT !.body[at].content = <<panelContent(data)>>]

SetResearchState(rs) ==
    /\ displayContainer' = rs.displayContainer
    /\ researchBody' = rs.body

ResearchEmpty ==
    /\ displayContainer = NoNode
    /\ researchBody = <<>>
    /\ researchCall = [op |-> "none"]

\* ------------------------------------------------------------------------
\* Loading indicator and research panel: actions
\* ------------------------------------------------------------------------
\* window.loadingIndicator.show(message)
Show(message) ==
    /\ headStyles < MaxShows
    /\ SetLoadingState(show(loadingState, message))
    /\ loadingCall' = [op |-> "show", message |-> message]
    /\ UNCHANGED <<displayContainer, researchBody, researchCall>>
    /\ UNCHANGED <<advVars, basicVars, photoVars, textVars, probe>>

\* window.loadingIndicator.hide()
Hide ==
    /\ SetLoadingState(hide(loadingState))
    /\ loadingCall' = [op |-> "hide"]
    /\ UNCHANGED <<displayContainer, researchBody, researchCall>>
    /\ UNCHANGED <<advVars, basicVars, photoVars, textVars, probe>>

\* window.researchDisplay.displayResearch(data)
DisplayResearch(data) ==
    /\ SetResearchState(displayResearch(researchState, data))
    /\ researchCall' = [op |-> "displayResearch", data |-> data]
    /\ UNCHANGED <<loadingContainer, loadingBody, headStyles, loadingCall>>
    /\ UNCHANGED <<advVars, basicVars, photoVars, textVars, probe>>

\* window.researchDisplay.removeResearchDisplay()
RemoveResearchDisplay ==
    /\ SetResearchState(removeResearchDisplay(researchState))
    /\ researchCall' = [op |-> "removeResearchDisplay"]
    /\ UNCHANGED <<loadingContainer, loadingBody, headStyles, loadingCall>>
    /\ UNCHANGED <<advVars, basicVars, photoVars, textVars, probe>>

\* The results the panel is shown with while both overlays are exercised.
PanelInputs ==
    {d \in ResearchInputs :
        /\ d.description = ""
        /\ \A i \in 1 .. Len(d.metadata) :
              d.metadata[i].url # "" /\ d.metadata[i].likenessScore = 876}

PanelNext ==
    \/ \E message \in Messages : Show(message)
    \/ Hide
    \/ \E data \in PanelInputs : DisplayResearch(data)
    \/ RemoveResearchDisplay

\* One research result rendered on a page without a panel.
ResearchNext ==
    \/ \E data \in ResearchInputs :
          researchBody = <<>> /\ DisplayResearch(data)
    \/ RemoveResearchDisplay

\* The panel shown and the result it was built from.
Shown == researchBody[1].content[1]
WithThumbnail(metadata) == SelectSeq(metadata, LAMBDA e : e.thumbnailUrl # "")

\* The whole number nearest to a value given in tenths (halves upwards).
Nearest(tenths) ==
    CHOOSE r \in 0 .. 101 : 10 * r - 5 <= tenths /\ tenths < 10 * r + 5

\* C15: a card has a 'Match: r%' line if and only if its metadata entry has
\* a likeness score (any value from 0 to 100), r being the score rounded to
\* the nearest whole number; 87.6 gives 'Match: 88%'.
C15_MatchLineIffScore ==
    (researchCall.op = "displayResearch" /\ Shown.grid # <<>>) =>
        LET entries == WithThumbnail(researchCall.data.metadata)
            grid == Shown.grid[1]
        IN  \A i \in 1 .. Len(grid) :
               /\ i <= Len(entries)
               /\ grid[i].match =
                     (IF entries[i].likenessScore # Undefined
                      THEN <<Nearest(entries[i].likenessScore)>> ELSE <<>>)
               /\ entries[i].likenessScore = 876 => grid[i].match = <<88>>

\* C16: the grid is rendered if and only if data.metadata is non-empty, and
\* it holds one card per entry that has a thumbnail URL, in metadata order,
\* whatever the entries' url and likenessScore.
C16_OneCardPerThumbnail ==
    researchCall.op = "displayResearch" =>
        LET metadata == researchCall.data.metadata
            entries == WithThumbnail(metadata)
        IN  /\ (Shown.grid # <<>>) <=> (Len(metadata) > 0)
            /\ Shown.grid # <<>> =>
                  /\ Len(Shown.grid[1]) = Len(entries)
                  /\ \A i \in 1 .. Len(entries) :
                        Shown.grid[1][i].src = entries[i].thumbnailUrl

\* A result of two entries, the first without a thumbnail and with a score,
\* was rendered as a grid of one card, the second entry's.
C16_Witness ==
    /\ researchCall.op = "displayResearch"
    /\ Len(researchCall.data.metadata) = 2
    /\ researchCall.data.metadata[1].thumbnailUrl = ""
    /\ researchCall.data.metadata[1].likenessScore = 876
    /\ Len(Shown.grid[1]) = 1
    /\ Shown.grid[1][1].src = researchCall.data.metadata[2].thumbnailUrl

\* C11: the loading indicator and the research panel each have at most one
\* overlay attached: exactly one, held in the module's reference and showing
\* the latest message / data, after show / displayResearch; none, with the
\* reference null, after hide / removeResearchDisplay; hide or
\* removeResearchDisplay with nothing shown changes nothing.
C11_SingleOverlay ==
    /\ [](/\ Len(loadingBody) <= 1
          /\ Len(researchBody) <= 1
          /\ loadingCall.op = "show" =>
                loadingBody = <<[node |-> loadingContainer,
                                 message |-> loadingCall.message]>>
          /\ loadingCall.op = "hide" =>
                loadingBody = <<>> /\ loadingContainer = NoNode
          /\ researchCall.op = "displayResearch" =>
                researchBody = <<[node |-> displayContainer,
                                  content |-> <<panelContent(researchCall.data)>>]>>
          /\ researchCall.op = "removeResearchDisplay" =>
                researchBody = <<>> /\ displayContainer = NoNode)
    /\ [][/\ (loadingCall'.op = "hide" /\ loadingBody = <<>>)
                => UNCHANGED <<loadingContainer, loadingBody, headStyles>>
          /\ (researchCall'.op = "removeResearchDisplay" /\ researchBody = <<>>)
                => UNCHANGED <<displayContainer, researchBody>>]_vars

\* A second show and a second displayResearch, each with a message / result
\* other than the one it replaced, have both been made.
C11_Witness ==
    /\ loadingCall.op = "show"
    /\ headStyles = 2
    /\ loadingCall.message = "Scanning"
    /\ researchCall.op = "displayResearch"
    /\ Len(researchCall.data.metadata) = 2
    /\ Len(researchBody) = 1

\* ------------------------------------------------------------------------
\* isInteractiveElement through the public API (part_000:742)
\* ------------------------------------------------------------------------
PlainDiv == El("div", <<>>, {}, "block", "self", FALSE, FALSE)

\* Elements that differ in what isInteractiveElement reads.
ProbeElements ==
    {[PlainDiv EXCEPT !.tagName = t, !.role = r, !.tabindex = ti, !.attrs = at,
                      !.onclick = oc, !.contenteditable = ce, !.draggable = dr,
                      !.classList = cl] :
        t \in {"div", "span", "summary"},
        r \in {<<>>, <<"B","u","t","t","o","n">>, <<"n","o","t","e">>},
        ti \in {Absent, "-1", "0"},
        at \in {{}, {"aria-pressed"}, {"title"}},
        oc \in BOOLEAN,
        ce \in {Absent, "true", "false"},
        dr \in BOOLEAN,
        cl \in {{}, {<<"b","t","n","-","p","r","i","m","a","r","y">>},
                {<<"c","a","r","d">>, <<"N","a","v","D","r","o","p","D","o","w","n">>},
                {<<"c","a","r","d">>}}}

ProbeNodes ==
    {[nodeType |-> "null"], [nodeType |-> "TEXT_NODE"]}
       \cup {[nodeType |-> "ELEMENT_NODE", element |-> e] : e \in ProbeElements}

\* The orchestration layer holds a node it is about to ask about.
ProbeInit == \E node \in ProbeNodes : probe = [op |-> "none", node |-> node]

\* window.elementHighlighter.isInteractiveElement(node)
IsInteractiveElement ==
    /\ probe.op = "none"
    /\ "node" \in DOMAIN probe
    /\ probe' = [op |-> "isInteractiveElement", node |-> probe.node,
                 ret |-> isInteractiveNode(probe.node)]
    /\ UNCHANGED <<advVars, basicVars, photoVars, panelVars, textVars>>

\* Two strings are the same but for the case of their letters.
SameIgnoringCase(s, t) ==
    /\ Len(s) = Len(t)
    /\ \A i \in 1 .. Len(s) :
          \/ s[i] = t[i]
          \/ \E k \in 1 .. 26 : {s[i], t[i]} = {UpperCase[k], LowerCase[k]}

ContainsIgnoringCase(s, pat) ==
    \E i \in 1 .. Len(s) :
        /\ i + Len(pat) - 1 <= Len(s)
        /\ SameIgnoringCase(SubSeq(s, i, i + Len(pat) - 1), pat)

\* C17: isInteractiveElement returns true exactly when the node is an
\* element and its tag is an interactive tag, or its role is, whatever its
\* case, an interactive role, or it has a tabindex other than "-1", or a
\* click handler or one of the click/ARIA attributes, or contenteditable
\* "true", or it is draggable, or a class name contains button, btn,
\* clickable, interactive, selectable or dropdown in any case; an element
\* with class btn-primary and nothing else is interactive.
C17_InteractiveExactlyWhenListed ==
    probe.op = "isInteractiveElement" =>
        /\ probe.node.nodeType # "ELEMENT_NODE" => probe.ret = FALSE
        /\ probe.node.nodeType = "ELEMENT_NODE" =>
              LET e == probe.node.element
              IN  /\ probe.ret <=>
                        \/ e.tagName \in interactiveElements
                        \/ \E r \in interactiveRoles : SameIgnoringCase(e.role, r)
                        \/ e.tabindex \notin {Absent, "-1"}
                        \/ e.onclick
                        \/ \E at \in clickAttributes : at \in e.attrs
                        \/ e.contenteditable = "true"
                        \/ e.draggable
                        \/ \E cls \in e.classList : \E pat \in classPatterns :
                              ContainsIgnoringCase(cls, pat)
                  /\ <<"b","t","n","-","p","r","i","m","a","r","y">> \in e.classList
                        => probe.ret

\* A div whose role is written 'Button', with nothing else that counts, was
\* found interactive.
C17_Witness ==
    /\ probe.op = "isInteractiveElement"
    /\ probe.ret
    /\ probe.node.nodeType = "ELEMENT_NODE"
    /\ probe.node.element = [PlainDiv EXCEPT !.role = <<"B","u","t","t","o","n">>]

\* ------------------------------------------------------------------------
\* Properties of highlightAllText
\* ------------------------------------------------------------------------
\* Element n and the elements above it.
RECURSIVE PathUp(_)
PathUp(n) == IF n = 0 THEN {} ELSE {n} \cup PathUp(dom.parentNode[n])

\* The text nodes <<n, k>> (the k-th under element n) that lie under element
\* p with no script or style element from their parent up to p.
PlacedTexts(p) ==
    {t \in Nodes \X (1 .. 1) :
        /\ t[2] \in DOMAIN textDom[t[1]]
        /\ p \in PathUp(t[1])
        /\ \A m \in PathUp(t[1]) :
              p \in PathUp(m) => Elem(dom, m).tagName \notin {"script", "style"}}

\* The rectangles <<n, k, i>> of the text nodes in T that have an area.
RenderedRects(T) ==
    UNION {{<<t[1], t[2], i>> :
               i \in {j \in DOMAIN textDom[t[1]][t[2]].rects :
                        /\ textDom[t[1]][t[2]].rects[j].width > 0
                        /\ textDom[t[1]][t[2]].rects[j].height > 0}} : t \in T}

DrawnRects == {<<b.element, b.text, b.rect>> : b \in SeqRange(container.boxes)}

\* C19 as stated: after highlightAllText the boxes are, one each, the
\* rendered rectangles of the non-empty text nodes under the resolved parent
\* outside script and style, the return value is their number and the number
\* of boxes in the container; an unresolved parent gives 0 and no box.
C19_BoxPerRectOfNonEmptyText ==
    textCall.op = "highlightAllText" =>
        LET p == querySelector(textCall.parentSelector)
            E == RenderedRects({t \in PlacedTexts(p) :
                                  Len(textDom[t[1]][t[2]].textContent) > 0})
        IN  IF p = 0
            THEN textCall.ret = 0 /\ container.boxes = <<>>
            ELSE /\ DrawnRects = E
                 /\ Len(container.boxes) = Cardinality(E)
                 /\ textCall.ret = Cardinality(E)

\* C19, amended: after highlightAllText the boxes are, one each, the
\* rectangles of positive width and height of the text nodes under the
\* resolved parent, outside script and style, whose content is not only
\* white space; the return value is their number and the number of boxes in
\* the container; an unresolved parent gives 0 and no box.
C19_BoxPerRectOfNonBlankText ==
    textCall.op = "highlightAllText" =>
        LET p == querySelector(textCall.parentSelector)
            E == RenderedRects({t \in PlacedTexts(p) :
                                  \E i \in DOMAIN textDom[t[1]][t[2]].textContent :
                                      textDom[t[1]][t[2]].textContent[i] \notin WhiteSpace})
        IN  IF p = 0
            THEN textCall.ret = 0 /\ container.boxes = <<>>
            ELSE /\ DrawnRects = E
                 /\ Len(container.boxes) = Cardinality(E)
                 /\ textCall.ret = Cardinality(E)

\* highlightAllText("body") on a page with a wrapped sentence directly under
\* body, another inside a style element and a lone space elsewhere returned
\* a count that left both of these out.
C19_Witness ==
    /\ textCall.op = "highlightAllText"
    /\ textCall.parentSelector = "body"
    /\ textDom[1] = <<Wrapped>>
    /\ \E n \in Nodes : Elem(dom, n) = StyleEl /\ textDom[n] = <<Wrapped>>
    /\ \E n \in Nodes : Elem(dom, n) = Button /\ textDom[n] = <<Blank>>
    /\ \A n \in Nodes : Elem(dom, n) = Button => textDom[n] = <<Blank>>
    /\ \A n \in Nodes : Elem(dom, n) = ScriptEl => textDom[n] = <<>>
    /\ textCall.ret = 2
    /\ Len(container.boxes) = 2

\* A page without text, on which highlightAllText has not been called.
TextIdle ==
    /\ textDom = [n \in Nodes |-> <<>>]
    /\ textCall = [op |-> "none"]

ProbeIdle == probe = [op |-> "none"]

PanelsEmpty ==
    /\ LoadingEmpty
    /\ ResearchEmpty

\* The other scripts' variables while one script is exercised.
OtherIdle ==
    /\ PanelsEmpty
    /\ TextIdle
    /\ ProbeIdle

\* The advanced highlighter's variables when only the basic one is exercised.
AdvIdle ==
    /\ dom = [parentNode |-> [n \in Nodes |-> n - 1],
              element |-> [n \in Nodes |-> IF n = 1 THEN BodyElement ELSE Button]]
    /\ highlightIndex = 0
    /\ ID = 0
    /\ DOM_HASH_MAP = << >>
    /\ DOM_CACHE = [boundingRects |-> {}, computedStyles |-> {}]
    /\ container = NoContainer
    /\ listeners = 0
    /\ scanCall = [n |-> 0]

BasicNext ==
    \/ \E selector \in BasicSelectors, id \in CallerIds \cup {AutoId},
          duration \in Durations :
          Highlight(selector, id, duration)
    \/ \E id \in CallerIds : RemoveHighlight(id)
    \/ \E i \in 1 .. Len(highlights) : RemoveHighlight(highlights[i].id)
    \/ RemoveAllHighlights
    \/ \E t \in timers : TimerFires(t)
    \/ \E id \in CallerIds : UpdateHighlightPosition(id)
    \/ \E l \in Layouts : MutationBatch(l)
    \/ LoadAdvanced

BasicPageInit ==
    /\ BasicInit
    /\ AdvIdle
    /\ PhotoEmpty
    /\ OtherIdle

SpecBasic == BasicPageInit /\ [][BasicNext]_vars

PhotoInit ==
    /\ PhotoEmpty
    /\ AdvIdle
    /\ BasicInit
    /\ OtherIdle

SpecPhoto == PhotoInit /\ [][PhotoNext]_vars

SpecRender == PhotoInit /\ [][RenderNext]_vars

ScanInit ==
    /\ AdvInit
    /\ loaded = <<"advanced">>
    /\ BasicEmpty
    /\ PhotoEmpty
    /\ OtherIdle

PanelsInit ==
    /\ PanelsEmpty
    /\ TextIdle
    /\ ProbeIdle
    /\ AdvIdle
    /\ BasicInit
    /\ PhotoEmpty

\* A page with text, the advanced highlighter loaded and not yet called.
TextInit ==
    /\ dom \in TextPages
    /\ textDom \in [Nodes -> TextChildren]
    /\ textCall = [op |-> "none"]
    /\ highlightIndex = 0
    /\ ID = 0
    /\ DOM_HASH_MAP = << >>
    /\ DOM_CACHE = [boundingRects |-> {}, computedStyles |-> {}]
    /\ container = NoContainer
    /\ listeners = 0
    /\ scanCall = [n |-> 0]
    /\ loaded = <<"advanced">>
    /\ BasicEmpty
    /\ PhotoEmpty
    /\ PanelsEmpty
    /\ ProbeIdle

SpecText == TextInit /\ [][\E sel \in TextSelectors : HighlightAllText(sel)]_vars

ClassifyInit ==
    /\ ProbeInit
    /\ PanelsEmpty
    /\ TextIdle
    /\ AdvIdle
    /\ loaded = <<"advanced">>
    /\ BasicEmpty
    /\ PhotoEmpty

SpecClassify == ClassifyInit /\ [][IsInteractiveElement]_vars

SpecPanels == PanelsInit /\ [][PanelNext]_vars

SpecResearch == PanelsInit /\ [][ResearchNext]_vars

AdvNext ==
    \/ \E sel \in Selectors \ {"#missing"} :
          FindAndHighlight([parentSelector |-> sel])
    \/ RemoveAllHighlightsAdv

SpecScan == ScanInit /\ [][AdvNext]_vars

\* Scans with options: on pages of visible and hidden buttons, any of the
\* option objects below on each call.
ScanOptions ==
    {[parentSelector |-> sel] : sel \in Selectors}
       \cup {[doHighlightElements |-> FALSE, focusHighlightIndex |-> 0,
              viewportExpansion |-> 100, parentSelector |-> sel] :
                sel \in Selectors}
       \cup {[doHighlightElements |-> FALSE], [focusHighlightIndex |-> 0],
             [viewportExpansion |-> 100]}

OptionsInit ==
    /\ ScanInit
    /\ \A n \in Nodes \ {1} : Elem(dom, n) \in {Button, HiddenButton}

SpecOptions ==
    OptionsInit /\ [][\E options \in ScanOptions : FindAndHighlight(options)]_vars

\* ------------------------------------------------------------------------
\* Properties of the advanced highlighter
\* ------------------------------------------------------------------------
\* The DOM itself, independent of the walk: the path from an element to the
\* root, document (pre-)order, and the elements a scan from `start` is to
\* evaluate (accepted, under accepted ancestors, below an iframe only
\* through its content body).
RECURSIVE PathToRoot(_, _)
PathToRoot(d, n) == IF n = 0 THEN {} ELSE {n} \cup PathToRoot(d, d.parentNode[n])

RECURSIVE PreOrder(_, _)
RECURSIVE PreOrderAll(_, _)
PreOrderAll(d, kids) ==
    IF kids = <<>> THEN <<>>
    ELSE PreOrder(d, Head(kids)) \o PreOrderAll(d, Tail(kids))
PreOrder(d, n) == <<n>> \o PreOrderAll(d, childNodes(d, n))

Position(seq, x) == CHOOSE i \in 1 .. Len(seq) : seq[i] = x

Scanned(d, start) ==
    {n \in Nodes :
        /\ start \in PathToRoot(d, n)
        /\ \A m \in PathToRoot(d, n) :
              start \in PathToRoot(d, m) =>
                 /\ isElementAccepted(Elem(d, m))
                 /\ (m # start /\ Elem(d, d.parentNode[m]).tagName = "iframe")
                       => IsFrameBody(d, m)}

ClassifiedInteractive(d, start) ==
    {n \in Scanned(d, start) :
        /\ isElementVisible(Elem(d, n))
        /\ isTopElement(Elem(d, n))
        /\ isInteractiveElement(Elem(d, n))}

\* The records written by the most recent scan, and those with an index.
LatestRecords == {DOM_HASH_MAP[i] : i \in 0 .. (ID - 1)}
IndexedRecords == {r \in LatestRecords : "highlightIndex" \in DOMAIN r}
ScanDone == scanCall.n > 0

\* C1: every scan starts from reset state (both counters 0, both caches
\* empty, no record in the id->record mapping, no overlay container), so
\* after any sequence of scans the mapping holds exactly the records of the
\* most recent scan, also when that scan visited fewer elements.
C1_ScanRebuildsMapping ==
    ScanDone =>
        /\ scanCall.atWalk.highlightIndex = 0
        /\ scanCall.atWalk.ID = 0
        /\ scanCall.atWalk.DOM_CACHE = [boundingRects |-> {}, computedStyles |-> {}]
        /\ scanCall.atWalk.recordIds = {}
        /\ ~scanCall.atWalk.container.attached
        /\ DOMAIN DOM_HASH_MAP = 0 .. (Cardinality(Scanned(dom, scanCall.start)) - 1)
        /\ \A id \in DOMAIN DOM_HASH_MAP :
              DOM_HASH_MAP[id].element \in Scanned(dom, scanCall.start)

\* C2: an element whose overlay drawing throws keeps its record but does not
\* consume an index: the returned count leaves it out and the next
\* interactive element visited gets the index it would have had.
C2_FailedOverlayKeepsIndex ==
    ScanDone =>
        LET order == PreOrder(dom, scanCall.start)
            failed == {r \in IndexedRecords : Elem(dom, r.element).throws}
        IN  /\ scanCall.ret = Cardinality(IndexedRecords) - Cardinality(failed)
            /\ \A n \in ClassifiedInteractive(dom, scanCall.start) :
                  \E r \in LatestRecords : r.element = n
            /\ \A f \in failed : \A r \in IndexedRecords :
                  (/\ Position(order, f.element) < Position(order, r.element)
                   /\ ~\E q \in IndexedRecords :
                         /\ Position(order, f.element) < Position(order, q.element)
                         /\ Position(order, q.element) < Position(order, r.element))
                  => r.highlightIndex = f.highlightIndex

\* The elements a scan from `start` reaches: start and the children of the
\* elements it evaluates (the filter is applied to them on arrival).
Reached(d, start) ==
    {n \in Nodes :
        \/ n = start
        \/ /\ d.parentNode[n] \in Scanned(d, start)
           /\ Elem(d, d.parentNode[n]).tagName = "iframe" => IsFrameBody(d, n)}

HasIndex(n) == \E r \in IndexedRecords : r.element = n

\* The page of the example: under body, one visible button, one display:none
\* button and one occluded div with role=button, and nothing else.
ExamplePage ==
    /\ \A n \in Nodes \ {1} : dom.parentNode[n] = 1
    /\ {Elem(dom, n) : n \in Nodes \ {1}} = {Button, HiddenButton, OccludedRole}
    /\ Cardinality({n \in Nodes : Elem(dom, n) = Button}) = 1

\* C12: in a scan an element gets a highlightIndex and an overlay if and
\* only if it is accepted, visible, topmost and interactive; the three
\* checks run in that order and stop at the first false; a hidden or
\* occluded element never gets an index; on the example page exactly the
\* visible button is indexed, with index 0.
C12_IndexedIffAllChecksPass ==
    ScanDone =>
        /\ \A n \in Reached(dom, scanCall.start) :
              (HasIndex(n) /\ n \in scanCall.overlaid)
                 <=> /\ isElementAccepted(Elem(dom, n))
                     /\ isElementVisible(Elem(dom, n))
                     /\ isTopElement(Elem(dom, n))
                     /\ isInteractiveElement(Elem(dom, n))
        /\ \A r \in LatestRecords :
              /\ ("isTopElement" \in DOMAIN r) <=> r.isVisible
              /\ ("isInteractive" \in DOMAIN r)
                    <=> ("isTopElement" \in DOMAIN r /\ r.isTopElement)
        /\ \A r \in IndexedRecords :
              isElementVisible(Elem(dom, r.element)) /\ isTopElement(Elem(dom, r.element))
        /\ (ExamplePage /\ scanCall.start = 1) =>
              \E r \in IndexedRecords :
                 /\ IndexedRecords = {r}
                 /\ Elem(dom, r.element) = Button
                 /\ r.highlightIndex = 0

\* Which element has which index after the latest scan.
IndexOf == {<<r.element, r.highlightIndex>> : r \in IndexedRecords}

\* C13: a scan repeated from the same parent on an unchanged page, with or
\* without removeAllHighlights() in between, gives every element the index
\* it had and returns the same count.
C13_RescanRepeatsIndices ==
    [][(scanCall.n >= 1 /\ scanCall'.n = scanCall.n + 1
          /\ scanCall'.start = scanCall.start)
          => /\ scanCall'.ret = scanCall.ret
             /\ IndexOf' = IndexOf
             /\ scanCall'.overlaid = scanCall.overlaid]_vars

\* A second scan from the same parent, made after removeAllHighlights() took
\* the first scan's overlays away, that indexed two elements or more.
C13_Witness ==
    /\ scanCall.n = 2
    /\ scanCall.repeat
    /\ scanCall.ret >= 2
    /\ Cardinality(scanCall.overlaid) >= 2

\* C20: after a scan every accepted element that was visited has exactly one
\* record, the record ids are distinct and sequential, and the children
\* field of each record lists the record ids of the accepted children
\* visited from its element (an iframe's body, a shadow root's children,
\* otherwise the element's child elements), in the order of the visit.
C20_RecordsListTheirChildren ==
    ScanDone =>
        LET S == Scanned(dom, scanCall.start)
            IdOf(n) == CHOOSE id \in DOMAIN DOM_HASH_MAP :
                           DOM_HASH_MAP[id].element = n
            InScan(n) == n \in S
            Visited(m) == SelectSeq(childNodes(dom, m), InScan)
        IN  /\ DOMAIN DOM_HASH_MAP = 0 .. (Cardinality(S) - 1)
            /\ \A n \in S :
                  Cardinality({id \in DOMAIN DOM_HASH_MAP :
                                  DOM_HASH_MAP[id].element = n}) = 1
            /\ \A id \in DOMAIN DOM_HASH_MAP :
                  DOM_HASH_MAP[id].children =
                      [i \in 1 .. Len(Visited(DOM_HASH_MAP[id].element)) |->
                          IdOf(Visited(DOM_HASH_MAP[id].element)[i])]

\* What a scan leaves for its caller: the index of each indexed element, the
\* overlays and labels drawn, and the count.
Outcome(st, ret) ==
    [indexed |-> {<<st.DOM_HASH_MAP[id].element, st.DOM_HASH_MAP[id].highlightIndex>> :
                     id \in {i \in 0 .. (st.ID - 1) :
                               "highlightIndex" \in DOMAIN st.DOM_HASH_MAP[i]}},
     boxes |-> st.container.boxes,
     ret |-> ret]

\* C21: the outcome of a scan (which element has which highlightIndex, the
\* overlays drawn, the count returned) is the one a scan of the same page
\* gives with only parentSelector passed, whatever doHighlightElements,
\* focusHighlightIndex and viewportExpansion are; and with a parentSelector
\* that resolves to no element it is the one of a scan without
\* parentSelector, from document.body.
C21_OnlyParentSelectorMatters ==
    ScanDone =>
        LET given == config(scanCall.options).parentSelector
            sel == IF given # NoSelector /\ querySelector(given) = 0
                   THEN NoSelector ELSE given
            plain == findAndHighlightInteractiveElements(
                         dom, [parentSelector |-> sel],
                         [highlightIndex |-> 0, ID |-> 0, DOM_HASH_MAP |-> << >>,
                          DOM_CACHE |-> [boundingRects |-> {}, computedStyles |-> {}],
                          container |-> NoContainer, listeners |-> 0])
        IN  /\ Outcome(advState, scanCall.ret) = Outcome(plain.st, plain.ret)
            /\ sel = NoSelector => scanCall.start = 1

\* A second scan, with doHighlightElements false, the two other options
\* changed and a selector that matches nothing, indexed two buttons from
\* body on and drew their overlays.
C21_Witness ==
    /\ scanCall.n = 2
    /\ scanCall.options = [doHighlightElements |-> FALSE, focusHighlightIndex |-> 0,
                           viewportExpansion |-> 100, parentSelector |-> "#missing"]
    /\ scanCall.ret = 2
    /\ Cardinality(scanCall.overlaid) = 2
    /\ 2 \notin scanCall.overlaid

\* C22: the scroll and resize listeners registered for the overlays are
\* released with them: after removeAllHighlights and after every scan there
\* are at most two listeners on the window for each overlay drawn.
C22_ListenersReleasedWithOverlays ==
    listeners <= 2 * Cardinality({i \in DOMAIN container.boxes :
                                     container.boxes[i].kind = "overlay"})

\* C3: when a scan returns k, the indices assigned in it are exactly
\* 0..k-1, one element each, increasing in pre-order of the DOM (through
\* iframe bodies and shadow roots), and k is the number of elements the scan
\* classified interactive.
C3_DenseIndicesInPreOrder ==
    ScanDone =>
        LET order == PreOrder(dom, scanCall.start)
            k == scanCall.ret
        IN  /\ {r.highlightIndex : r \in IndexedRecords} = 0 .. (k - 1)
            /\ \A r, q \in IndexedRecords :
                  r.highlightIndex = q.highlightIndex => r = q
            /\ \A r, q \in IndexedRecords :
                  Position(order, r.element) < Position(order, q.element)
                     => r.highlightIndex < q.highlightIndex
            /\ {r.element : r \in IndexedRecords}
                  = ClassifiedInteractive(dom, scanCall.start)
            /\ k = Cardinality(ClassifiedInteractive(dom, scanCall.start))

\* A scan that indexed an element inside an iframe or a shadow root, and two
\* elements whose document order is not their numbering.
C3_Witness ==
    /\ ScanDone
    /\ scanCall.ret >= 2
    /\ \E r \in IndexedRecords :
          LET p == dom.parentNode[r.element]
          IN  p # 0 /\ (Elem(dom, p).tagName = "iframe" \/ Elem(dom, p).shadowRoot)
    /\ \E r, q \in IndexedRecords :
          r.element > q.element /\ r.highlightIndex < q.highlightIndex

====
